---- MODULE Spec2Model ----
(***************************************************************************)
(* Model of FinancialDocumentTool.read_data_tool (src/tools.py): the PDF   *)
(* text extractor.  Strings are sequences of one-character strings, so     *)
(* that formatting, newline collapsing and stripping are computed          *)
(* character by character, as the Python string operations do.             *)
(***************************************************************************)
EXTENDS Integers, Sequences, FiniteSets, TLC

VARIABLES
    path,         \* the argument of read_data_tool
    exists,       \* os.path.exists(path) at call time
    doc,          \* what the PDF library yields for the file at path
    pc,           \* position inside read_data_tool
    reader,       \* reader.pages once PdfReader(path) has returned
    page_number,  \* enumerate() index of the current page (0-based)
    content,      \* value of page.extract_text() being cleaned
    full_report,  \* the accumulating report
    result,       \* the string returned by the call
    outcome,      \* which return statement produced result
    opened,       \* PdfReader(path) was called during this call
    calls,        \* number of calls started so far
    prev,         \* the string returned by the previous call
    t0,           \* input text of the newline-normalization runs
    out1,         \* output of the first normalization pass
    pass          \* which normalization pass is running

vars == <<path, exists, doc, pc, reader, page_number, content, full_report,
          result, outcome, opened, calls, prev, t0, out1, pass>>

(***************************************************************************)
(* Bounds                                                                  *)
(***************************************************************************)
MaxPages == 3
MaxCalls == 2
MaxLen == 4

(***************************************************************************)
(* String constants of the code                                            *)
(***************************************************************************)
NL == "\n"

NotFoundPrefix ==
    <<"E", "r", "r", "o", "r", ":", " ", "F", "i", "l", "e", " ", "n", "o",
      "t", " ", "f", "o", "u", "n", "d", " ", "a", "t", " ">>

ReadingPrefix ==
    <<"E", "r", "r", "o", "r", " ", "r", "e", "a", "d", "i", "n", "g", " ",
      "P", "D", "F", ":", " ">>

WarningText ==
    <<"W", "a", "r", "n", "i", "n", "g", ":", " ", "N", "o", " ", "r", "e",
      "a", "d", "a", "b", "l", "e", " ", "t", "e", "x", "t", " ", "f", "o",
      "u", "n", "d", " ", "i", "n", " ", "t", "h", "e", " ", "P", "D", "F",
      ".">>

MarkerHead == <<"\n", "-", "-", "-", " ", "P", "a", "g", "e", " ">>

MarkerTail == <<" ", "-", "-", "-", "\n">>

(***************************************************************************)
(* Python string operations                                                *)
(***************************************************************************)
Digits == <<"0", "1", "2", "3", "4", "5", "6", "7", "8", "9">>

\* str(n) of a non-negative int, as the f-string formats page_number + 1
RECURSIVE IntToStr(_)
IntToStr(n) ==
    IF n < 10 THEN <<Digits[n + 1]>>
    ELSE IntToStr(n \div 10) \o <<Digits[(n % 10) + 1]>>

\* f"\n--- Page {n} ---\n"
Marker(n) == MarkerHead \o IntToStr(n) \o MarkerTail

\* "\n\n" in s
HasDoubleNewline(s) ==
    \E i \in 1..(Len(s) - 1) : s[i] = NL /\ s[i + 1] = NL

\* Mutant of ReplaceDoubleNewline: replace("\n\n", ""), both newlines dropped
RECURSIVE ReplaceDeleting(_)
ReplaceDeleting(s) ==
    IF Len(s) < 2 THEN s
    ELSE IF s[1] = NL /\ s[2] = NL
         THEN ReplaceDeleting(SubSeq(s, 3, Len(s)))
         ELSE <<s[1]>> \o ReplaceDeleting(SubSeq(s, 2, Len(s)))

\* s.replace("\n\n", "\n"): left to right, non-overlapping occurrences
RECURSIVE ReplaceDoubleNewline(_)
ReplaceDoubleNewline(s) ==
    IF Len(s) < 2 THEN s
    ELSE IF s[1] = NL /\ s[2] = NL
         THEN <<NL>> \o ReplaceDoubleNewline(SubSeq(s, 3, Len(s)))
         ELSE <<s[1]>> \o ReplaceDoubleNewline(SubSeq(s, 2, Len(s)))

\* the characters str.strip() removes
Whitespace == {" ", "\t", "\n", "\r", "\f"}

RECURSIVE LStrip(_)
LStrip(s) ==
    IF s # <<>> /\ s[1] \in Whitespace THEN LStrip(Tail(s)) ELSE s

RECURSIVE RStrip(_)
RStrip(s) ==
    IF s # <<>> /\ s[Len(s)] \in Whitespace
    THEN RStrip(SubSeq(s, 1, Len(s) - 1))
    ELSE s

\* s.strip()
Strip(s) == RStrip(LStrip(s))

(***************************************************************************)
(* The environment: paths, files and what the PDF library does with them   *)
(***************************************************************************)
Str(t) == [none |-> FALSE, text |-> t]

\* extract_text() yielding no string at all
NoText == [none |-> TRUE, text |-> <<>>]

\* Mutant of Truthy: "if content is not None", so "" passes the test
TruthyNotNone(c) == ~c.none

\* Python truthiness of a page's text: None and "" are falsy
Truthy(c) == ~c.none /\ c.text # <<>>

RevenueText ==
    <<"R", "e", "v", "e", "n", "u", "e", "\n", "\n", "\n",
      "G", "r", "o", "w", "t", "h">>

MarkerLikeText ==
    <<"-", "-", "-", " ", "P", "a", "g", "e", " ", "2", " ", "-", "-", "-">>

\* page texts the library may return
PageTexts ==
    { <<>>, <<" ">>, <<"\n", "\n">>, RevenueText, MarkerLikeText,
      NotFoundPrefix \o <<"a">>, ReadingPrefix \o <<"a">>, WarningText }

PageValues == {NoText} \cup {Str(t) : t \in PageTexts}

\* the page texts of the repeated-call runs
FewPageValues == {NoText, Str(<<" ">>), Str(RevenueText)}

PageSeqs(values) == UNION {[1..n -> values] : n \in 0..MaxPages}

\* str(e) of the exceptions the library may raise
Messages == {<<>>, <<"E", "O", "F">>}

NoSuchFile ==
    <<"[", "E", "r", "r", "n", "o", " ", "2", "]", " ", "N", "o", " ", "s",
      "u", "c", "h", " ", "f", "i", "l", "e">>

\* A file: its pages, and where the library raises on it (failOpen: in
\* PdfReader(path); failPage = k > 0: in extract_text() of page k).
Docs(values) ==
    { [pages |-> p, failOpen |-> FALSE, failPage |-> 0, msg |-> <<>>] :
        p \in PageSeqs(values) }
    \cup
    { [pages |-> p, failOpen |-> TRUE, failPage |-> 0, msg |-> m] :
        p \in PageSeqs(values), m \in Messages }
    \cup
    { d \in [pages : PageSeqs(values), failOpen : {FALSE},
             failPage : 1..MaxPages, msg : Messages] :
        d.failPage <= Len(d.pages) }

\* what PdfReader finds at a path where no file exists
NoDoc == [pages |-> <<>>, failOpen |-> TRUE, failPage |-> 0, msg |-> NoSuchFile]

\* paths with no file, and the path of the uploaded file
MissingPaths == {<<"a">>, <<"b", " ", ".", "p", "d", "f">>}

ExistingPaths == {<<"b", " ", ".", "p", "d", "f">>}

Fails(d) == d.failOpen \/ d.failPage > 0

(***************************************************************************)
(* read_data_tool, statement by statement                                  *)
(***************************************************************************)
InitOver(values) ==
    /\ exists \in BOOLEAN
    /\ path \in (IF exists THEN ExistingPaths ELSE MissingPaths)
    /\ doc \in (IF exists THEN Docs(values) ELSE {NoDoc})
    /\ pc = "check"
    /\ reader = <<>>
    /\ page_number = 0
    /\ content = NoText
    /\ full_report = <<>>
    /\ result = <<>>
    /\ outcome = "none"
    /\ opened = FALSE
    /\ calls = 1
    /\ prev = <<>>
    /\ t0 = <<>>
    /\ out1 = <<>>
    /\ pass = 0

Init == InitOver(PageValues)

\* a return statement: the call ends with string s
Return(s, kind) ==
    /\ result' = s
    /\ outcome' = kind
    /\ pc' = "done"

\* Mutant of Except: the text accumulated so far is returned with the error
ExceptLeak(m) == Return(full_report \o ReadingPrefix \o m, "ParseFailure")

\* except Exception as e: return f"Error reading PDF: {str(e)}"
Except(m) == Return(ReadingPrefix \o m, "ParseFailure")

\* Mutant of CheckExists: no existence check, the file is opened directly
CheckExistsSkipped ==
    /\ pc = "check"
    /\ pc' = "open"
    /\ UNCHANGED <<path, exists, doc, reader, page_number, content,
                   full_report, result, outcome, opened, calls, prev, t0,
                   out1, pass>>

\* if not os.path.exists(path): return f"Error: File not found at {path}"
CheckExists ==
    /\ pc = "check"
    /\ IF ~exists
       THEN Return(NotFoundPrefix \o path, "NotFound")
       ELSE pc' = "open" /\ UNCHANGED <<result, outcome>>
    /\ UNCHANGED <<path, exists, doc, reader, page_number, content,
                   full_report, opened, calls, prev, t0, out1, pass>>

\* Mutant of OpenReader: full_report is not reset, it outlives the call
OpenReaderKeepReport ==
    /\ pc = "open"
    /\ opened' = TRUE
    /\ IF doc.failOpen
       THEN /\ Except(doc.msg)
            /\ UNCHANGED <<reader, page_number>>
       ELSE /\ reader' = doc.pages
            /\ page_number' = 0
            /\ pc' = "for"
            /\ UNCHANGED <<result, outcome>>
    /\ UNCHANGED <<path, exists, doc, content, full_report, calls, prev, t0,
                   out1, pass>>

\* reader = PdfReader(path); full_report = ""; the for loop starts
OpenReader ==
    /\ pc = "open"
    /\ opened' = TRUE
    /\ IF doc.failOpen
       THEN /\ Except(doc.msg)
            /\ UNCHANGED <<reader, full_report, page_number>>
       ELSE /\ reader' = doc.pages
            /\ full_report' = <<>>
            /\ page_number' = 0
            /\ pc' = "for"
            /\ UNCHANGED <<result, outcome>>
    /\ UNCHANGED <<path, exists, doc, content, calls, prev, t0, out1, pass>>

\* for page_number, page in enumerate(reader.pages):
\*     content = page.extract_text()
\*     if content: ...
NextPage ==
    /\ pc = "for"
    /\ IF page_number < Len(reader)
       THEN IF doc.failPage = page_number + 1
            THEN Except(doc.msg) /\ UNCHANGED <<content, page_number>>
            ELSE /\ content' = reader[page_number + 1]
                 /\ IF Truthy(content')
                    THEN pc' = "while" /\ UNCHANGED page_number
                    ELSE pc' = "for" /\ page_number' = page_number + 1
                 /\ UNCHANGED <<result, outcome>>
       ELSE /\ pc' = "return"
            /\ UNCHANGED <<content, page_number, result, outcome>>
    /\ UNCHANGED <<path, exists, doc, reader, full_report, opened, calls,
                   prev, t0, out1, pass>>

\* Mutant of CleanNewlines: a single replace pass, "if" in place of "while"
CleanNewlinesOnce ==
    /\ pc = "while"
    /\ content' = Str(ReplaceDoubleNewline(content.text))
    /\ pc' = "append"
    /\ UNCHANGED <<path, exists, doc, reader, page_number, full_report,
                   result, outcome, opened, calls, prev, t0, out1, pass>>

\* while "\n\n" in content: content = content.replace("\n\n", "\n")
CleanNewlines ==
    /\ pc = "while"
    /\ IF HasDoubleNewline(content.text)
       THEN /\ content' = Str(ReplaceDoubleNewline(content.text))
            /\ pc' = "while"
       ELSE /\ pc' = "append"
            /\ UNCHANGED content
    /\ UNCHANGED <<path, exists, doc, reader, page_number, full_report,
                   result, outcome, opened, calls, prev, t0, out1, pass>>

\* Mutant of AppendPage: the marker carries the 0-based enumerate index
AppendPageZeroBased ==
    /\ pc = "append"
    /\ full_report' = full_report \o Marker(page_number)
                        \o Strip(content.text) \o <<NL>>
    /\ page_number' = page_number + 1
    /\ pc' = "for"
    /\ UNCHANGED <<path, exists, doc, reader, content, result, outcome,
                   opened, calls, prev, t0, out1, pass>>

\* full_report += f"\n--- Page {page_number + 1} ---\n"
\* full_report += content.strip() + "\n"
AppendPage ==
    /\ pc = "append"
    /\ full_report' = full_report \o Marker(page_number + 1)
                        \o Strip(content.text) \o <<NL>>
    /\ page_number' = page_number + 1
    /\ pc' = "for"
    /\ UNCHANGED <<path, exists, doc, reader, content, result, outcome,
                   opened, calls, prev, t0, out1, pass>>

\* Mutant of ReturnReport: the report is returned without the empty check
ReturnReportNoWarning ==
    /\ pc = "return"
    /\ Return(full_report, "Success")
    /\ UNCHANGED <<path, exists, doc, reader, page_number, content,
                   full_report, opened, calls, prev, t0, out1, pass>>

\* Mutant of ReturnReport: "return full_report.strip()"
ReturnReportStripped ==
    /\ pc = "return"
    /\ IF Strip(full_report) = <<>>
       THEN Return(WarningText, "EmptyContent")
       ELSE Return(Strip(full_report), "Success")
    /\ UNCHANGED <<path, exists, doc, reader, page_number, content,
                   full_report, opened, calls, prev, t0, out1, pass>>

\* if not full_report.strip(): return "Warning: ..."; return full_report
ReturnReport ==
    /\ pc = "return"
    /\ IF Strip(full_report) = <<>>
       THEN Return(WarningText, "EmptyContent")
       ELSE Return(full_report, "Success")
    /\ UNCHANGED <<path, exists, doc, reader, page_number, content,
                   full_report, opened, calls, prev, t0, out1, pass>>

read_data_tool ==
    \/ CheckExists
    \/ OpenReader
    \/ NextPage
    \/ CleanNewlines
    \/ AppendPage
    \/ ReturnReport

\* the agent invokes the tool again on the same path and unmodified file
CallAgain ==
    /\ pc = "done"
    /\ calls < MaxCalls
    /\ calls' = calls + 1
    /\ prev' = result
    /\ pc' = "check"
    /\ result' = <<>>
    /\ outcome' = "none"
    /\ opened' = FALSE
    /\ UNCHANGED <<path, exists, doc, reader, page_number, content,
                   full_report, t0, out1, pass>>

Next == read_data_tool

Spec == Init /\ [][Next]_vars

\* repeated calls on the same file
InitTwice == InitOver(FewPageValues)

NextTwice == read_data_tool \/ CallAgain

SpecTwice == InitTwice /\ [][NextTwice]_vars

(***************************************************************************)
(* The newline normalization on its own: the while loop of read_data_tool  *)
(* run on every text over a small alphabet, then run again on its output.  *)
(***************************************************************************)
CleanAlphabet == {"\n", " ", "\t", "\r", "a"}

CleanTexts == UNION {[1..n -> CleanAlphabet] : n \in 0..MaxLen}

InitClean ==
    /\ t0 \in CleanTexts
    /\ content = Str(t0)
    /\ pc = "while"
    /\ pass = 1
    /\ out1 = <<>>
    /\ path = <<>>
    /\ exists = TRUE
    /\ doc = [pages |-> <<Str(t0)>>, failOpen |-> FALSE, failPage |-> 0,
              msg |-> <<>>]
    /\ reader = doc.pages
    /\ page_number = 0
    /\ full_report = <<>>
    /\ result = <<>>
    /\ outcome = "none"
    /\ opened = TRUE
    /\ calls = 1
    /\ prev = <<>>

\* the normalization is applied to its own output
CleanAgain ==
    /\ pc = "append"
    /\ pass = 1
    /\ out1' = content.text
    /\ pass' = 2
    /\ pc' = "while"
    /\ UNCHANGED <<path, exists, doc, reader, page_number, content,
                   full_report, result, outcome, opened, calls, prev, t0>>

NextClean == CleanNewlines \/ CleanAgain

\* the loop is sequential code: it keeps running until its condition fails
SpecClean == InitClean /\ [][NextClean]_vars /\ WF_vars(NextClean)

(***************************************************************************)
(* Reference definitions used to state the properties                      *)
(***************************************************************************)
\* the page has non-empty extracted text
HasText(c) == c.none = FALSE /\ Len(c.text) >= 1

HasPrefix(s, pre) == Len(pre) <= Len(s) /\ SubSeq(s, 1, Len(pre)) = pre

OccursAt(s, sub, i) ==
    /\ i + Len(sub) - 1 <= Len(s)
    /\ SubSeq(s, i, i + Len(sub) - 1) = sub

Contains(s, sub) == \E i \in 1..Len(s) : OccursAt(s, sub, i)

\* the elements of s at the indices in K, in order
Pick(s, K) ==
    [j \in 1..Cardinality(K) |->
        s[CHOOSE i \in K : Cardinality({k \in K : k < i}) = j - 1]]

\* every maximal run of newlines cut down to its first newline
RunCollapse(t) ==
    Pick(t, {i \in 1..Len(t) : ~(t[i] = NL /\ i > 1 /\ t[i - 1] = NL)})

\* t without its leading and trailing whitespace
Trim(t) ==
    LET ink == {i \in 1..Len(t) : t[i] \notin Whitespace}
    IN  IF ink = {} THEN <<>>
        ELSE SubSeq(t, CHOOSE i \in ink : \A k \in ink : i <= k,
                       CHOOSE i \in ink : \A k \in ink : k <= i)

\* the 1-indexed positions of the pages with non-empty text, increasing
NonEmptyPages(pages) ==
    Pick([k \in 1..Len(pages) |-> k], {k \in 1..Len(pages) : HasText(pages[k])})

\* "\n--- Page k ---\n" + trim(collapse(t)) + "\n"
Block(k, t) ==
    <<NL>> \o <<"-", "-", "-", " ", "P", "a", "g", "e", " ">> \o IntToStr(k)
        \o <<" ", "-", "-", "-">> \o <<NL>> \o Trim(RunCollapse(t)) \o <<NL>>

\* the blocks of the first n pages, in document order
RECURSIVE Blocks(_, _)
Blocks(pages, n) ==
    IF n = 0 THEN <<>>
    ELSE Blocks(pages, n - 1)
            \o (IF HasText(pages[n]) THEN Block(n, pages[n].text) ELSE <<>>)

\* the marker text "--- Page k ---"
MarkerText(k) ==
    <<"-", "-", "-", " ", "P", "a", "g", "e", " ">> \o IntToStr(k)
        \o <<" ", "-", "-", "-">>

MarkerNumbers == 1..(MaxPages + 1)

\* the page numbers of the markers that appear in s, in order of appearance
MarkersIn(s) ==
    LET at == {i \in 1..Len(s) :
                  \E k \in MarkerNumbers : OccursAt(s, MarkerText(k), i)}
        num == [i \in 1..Len(s) |->
                  IF i \in at
                  THEN CHOOSE k \in MarkerNumbers : OccursAt(s, MarkerText(k), i)
                  ELSE 0]
    IN  Pick(num, at)

\* the outcome class a caller reads off the returned string (by prefix)
Classify(s) ==
    IF HasPrefix(s, NotFoundPrefix) THEN "NotFound"
    ELSE IF HasPrefix(s, ReadingPrefix) THEN "ParseFailure"
    ELSE IF s = WarningText THEN "EmptyContent"
    ELSE "Success"

\* the call returned, the file existed and the library raised nothing
ReadOk == pc = "done" /\ exists /\ ~Fails(doc)

SomePageHasText == \E k \in 1..Len(doc.pages) : HasText(doc.pages[k])

(***************************************************************************)
(* C1: when no file exists at path, the call returns exactly               *)
(* "Error: File not found at " followed by path, and PdfReader(path) is    *)
(* never called during that call.                                          *)
(***************************************************************************)
C1_NotFound ==
    /\ ~exists => ~opened
    /\ (pc = "done" /\ ~exists) => result = NotFoundPrefix \o path

C1_Witness ==
    /\ pc = "done"
    /\ ~exists
    /\ ~opened
    /\ result = NotFoundPrefix \o <<"b", " ", ".", "p", "d", "f">>

(***************************************************************************)
(* C2: when the file exists and PdfReader(path) or any page's              *)
(* extract_text() raises with message m, the call returns exactly          *)
(* "Error reading PDF: " + m, with none of the accumulated report in it;   *)
(* the call never ends by raising and what it returns is a string.         *)
(***************************************************************************)
C2_ParseFailure ==
    /\ pc \in {"check", "open", "for", "while", "append", "return", "done"}
    /\ (pc = "done" /\ exists /\ Fails(doc)) => result = ReadingPrefix \o doc.msg
    /\ pc = "done" => result \in Seq(STRING)

C2_Witness ==
    /\ pc = "done"
    /\ exists
    /\ Len(doc.pages) = 3
    /\ doc.failPage = 2
    /\ doc.pages[1] = Str(RevenueText)
    /\ full_report # <<>>
    /\ doc.msg = <<"E", "O", "F">>
    /\ result = ReadingPrefix \o <<"E", "O", "F">>

(***************************************************************************)
(* C3: for a file read without error in which some page has non-empty      *)
(* text, the returned report is the concatenation, in document order, of   *)
(* "\n--- Page k ---\n" + trim(collapse(t)) + "\n" over the pages k whose  *)
(* text t is non-empty.                                                    *)
(***************************************************************************)
C3_ReportIsBlocks ==
    (ReadOk /\ SomePageHasText) => result = Blocks(doc.pages, Len(doc.pages))

C3_Witness ==
    /\ ReadOk
    /\ doc.pages = <<Str(RevenueText)>>
    /\ result = <<"\n", "-", "-", "-", " ", "P", "a", "g", "e", " ", "1", " ",
                  "-", "-", "-", "\n", "R", "e", "v", "e", "n", "u", "e", "\n",
                  "G", "r", "o", "w", "t", "h", "\n">>

(***************************************************************************)
(* C4 as stated: in every returned report the marker "--- Page k ---"      *)
(* appears if and only if page k has non-empty text, in increasing order   *)
(* of k.                                                                   *)
(***************************************************************************)
C4_MarkersIffNonEmpty ==
    (ReadOk /\ SomePageHasText) => MarkersIn(result) = NonEmptyPages(doc.pages)

NoPageHoldsMarkerText ==
    \A k \in 1..Len(doc.pages) : \A n \in MarkerNumbers :
        ~Contains(doc.pages[k].text, MarkerText(n))

(***************************************************************************)
(* C4 amended: provided no page's extracted text itself contains text of   *)
(* the form "--- Page n ---", the markers that appear in the returned      *)
(* report are exactly those of the pages with non-empty text, each once,   *)
(* in increasing order and with the page's own position number.            *)
(***************************************************************************)
C4_MarkersIffNonEmptyAmended ==
    (ReadOk /\ SomePageHasText /\ NoPageHoldsMarkerText)
        => MarkersIn(result) = NonEmptyPages(doc.pages)

C4_Witness ==
    /\ ReadOk
    /\ NoPageHoldsMarkerText
    /\ Len(doc.pages) = 3
    /\ HasText(doc.pages[1])
    /\ ~HasText(doc.pages[2])
    /\ HasText(doc.pages[3])
    /\ MarkersIn(result) = <<1, 3>>

(***************************************************************************)
(* C5: for a file read without error in which every page's text is empty   *)
(* or absent (a file with no pages included), the call returns exactly     *)
(* "Warning: No readable text found in the PDF.", never the empty string.  *)
(***************************************************************************)
C5_WarningWhenNoText ==
    (ReadOk /\ ~SomePageHasText) => (result = WarningText /\ result # <<>>)

C5_Witness ==
    /\ ReadOk
    /\ Len(doc.pages) = 2
    /\ doc.pages[1] = NoText
    /\ doc.pages[2] = Str(<<>>)
    /\ result = WarningText

(***************************************************************************)
(* C6 as stated: for a file read without error in which every page's text  *)
(* is empty, absent or made of whitespace only, the call returns exactly   *)
(* "Warning: No readable text found in the PDF.".                          *)
(***************************************************************************)
C6_WarningWhenOnlyWhitespace ==
    (ReadOk /\ \A k \in 1..Len(doc.pages) : Trim(doc.pages[k].text) = <<>>)
        => result = WarningText

(***************************************************************************)
(* C10: the outcome class read off the returned string by its prefix is    *)
(* the outcome the call actually had, and every success report begins      *)
(* with "\n--- Page ", whatever the page texts, the path and the           *)
(* exception message are.                                                  *)
(***************************************************************************)
C10_OutcomeReadable ==
    pc = "done" =>
        /\ Classify(result) = outcome
        /\ outcome = "Success" =>
              HasPrefix(result, <<"\n", "-", "-", "-", " ", "P", "a", "g", "e", " ">>)

C10_Witness ==
    /\ pc = "done"
    /\ outcome = "Success"
    /\ Len(doc.pages) >= 1
    /\ doc.pages[1] = Str(ReadingPrefix \o <<"a">>)
    /\ Classify(result) = "Success"

(***************************************************************************)
(* C8: a second call with the same path on the unmodified file returns     *)
(* the string the first call returned.                                     *)
(***************************************************************************)
C8_Deterministic ==
    (pc = "done" /\ calls >= 2) => result = prev

C8_Witness ==
    /\ pc = "done"
    /\ calls = 2
    /\ outcome = "Success"
    /\ result = prev

(***************************************************************************)
(* C7: the normalization leaves a text with no two consecutive newlines    *)
(* unchanged, and applied to its own output it returns that output.        *)
(***************************************************************************)
C7_Idempotent ==
    /\ (pc = "append" /\ pass = 1 /\ ~HasDoubleNewline(t0)) => content.text = t0
    /\ (pc = "append" /\ pass = 2) => content.text = out1

C7_Witness ==
    /\ pc = "append"
    /\ pass = 2
    /\ HasDoubleNewline(t0)
    /\ content.text = out1
    /\ out1 # t0

(***************************************************************************)
(* C9: the replace loop terminates, and on exit the text is the input      *)
(* with every maximal run of newlines cut down to one newline: no "\n\n"   *)
(* is left and every other character is kept, in order.                    *)
(***************************************************************************)
C9_LoopCollapsesRuns ==
    /\ [](pc = "append" =>
            /\ content.text = RunCollapse(t0)
            /\ ~HasDoubleNewline(content.text))
    /\ <>(pc = "append")

C9_Witness ==
    /\ pc = "append"
    /\ pass = 1
    /\ t0 = <<"\n", "\n", " ", "\n">>
    /\ content.text = <<"\n", " ", "\n">>

====
